---- MODULE Spec2Model ----
(***************************************************************************)
(* RopeDragging (omni_drones/envs/manipulation/rope_dragging.py): the      *)
(* per-instance state kept by the task (running statistics, target pose,   *)
(* cached distance, fields cached by the state aggregation) and the three  *)
(* operations that change it: _reset_idx, _compute_state_and_obs and       *)
(* _compute_reward_and_done.                                               *)
(*                                                                         *)
(* Numbers.  A tensor element is a float32.  It is modelled as a pair      *)
(* <<kind, v>>: <<"fin", v>> is the finite value v / Scale (fixed point,   *)
(* every operation rounds towards minus infinity), <<"nan", 0>> is NaN,    *)
(* <<"inf", 1>> and <<"inf", -1>> are the two infinities.  The operations  *)
(* follow IEEE 754 for the non-finite values, which is what torch does.    *)
(***************************************************************************)
EXTENDS Integers, Sequences, FiniteSets, TLC

\* ------------------------------------------------------------------------
\* Number representation, configuration and bounds
\* ------------------------------------------------------------------------
Scale == 20         \* fixed-point resolution: one unit is 1/Scale = 0.05
NumEnvs == 2        \* parallel instances (self.num_envs)
MaxProgress == 2    \* steps taken without a reset are capped here
MaxSep == 24        \* largest separation (in units) of the function check

\* ------------------------------------------------------------------------
\* float32 values and their arithmetic
\* ------------------------------------------------------------------------
Fin(v) == <<"fin", v>>
NaN == <<"nan", 0>>
PosInf == <<"inf", 1>>
NegInf == <<"inf", -1>>
Zero == Fin(0)
One == Fin(Scale)

IsNaN(x) == x[1] = "nan"
IsInf(x) == x[1] = "inf"
IsFin(x) == x[1] = "fin"
Sign(x) == IF x[2] > 0 THEN 1 ELSE IF x[2] < 0 THEN -1 ELSE 0

\* x < y as IEEE 754 compares: false as soon as one side is NaN
Lt(x, y) ==
    IF IsNaN(x) \/ IsNaN(y) THEN FALSE
    ELSE IF IsFin(x) /\ IsFin(y) THEN x[2] < y[2]
    ELSE IF IsInf(x) /\ IsInf(y) THEN x[2] < y[2]
    ELSE IF IsInf(x) THEN x[2] < 0
    ELSE y[2] > 0
Le(x, y) == Lt(x, y) \/ (~IsNaN(x) /\ x = y)

Neg(x) == IF IsNaN(x) THEN NaN ELSE <<x[1], -x[2]>>
Abs(x) == IF IsNaN(x) THEN NaN ELSE <<x[1], IF x[2] < 0 THEN -x[2] ELSE x[2]>>

Add(x, y) ==
    IF IsNaN(x) \/ IsNaN(y) THEN NaN
    ELSE IF IsInf(x) /\ IsInf(y) THEN (IF x = y THEN x ELSE NaN)
    ELSE IF IsInf(x) THEN x
    ELSE IF IsInf(y) THEN y
    ELSE Fin(x[2] + y[2])
Sub(x, y) == Add(x, Neg(y))

Mul(x, y) ==
    IF IsNaN(x) \/ IsNaN(y) THEN NaN
    ELSE IF IsInf(x) \/ IsInf(y)
         THEN (IF Sign(x) * Sign(y) = 0 THEN NaN ELSE <<"inf", Sign(x) * Sign(y)>>)
    ELSE Fin((x[2] * y[2]) \div Scale)

Div(x, y) ==
    IF IsNaN(x) \/ IsNaN(y) THEN NaN
    ELSE IF IsInf(x) /\ IsInf(y) THEN NaN
    ELSE IF IsInf(x) THEN <<"inf", x[2] * (IF y[2] < 0 THEN -1 ELSE 1)>>
    ELSE IF IsInf(y) THEN Zero
    ELSE IF y[2] = 0 THEN (IF x[2] = 0 THEN NaN ELSE <<"inf", Sign(x)>>)
    ELSE IF y[2] > 0 THEN Fin((x[2] * Scale) \div y[2])
    ELSE Fin(((-x[2]) * Scale) \div (-y[2]))

Square(x) == Mul(x, x)

\* torch.clamp(lo, hi): NaN stays NaN
Clamp(x, lo, hi) ==
    IF IsNaN(x) THEN NaN
    ELSE IF Lt(x, lo) THEN lo
    ELSE IF Lt(hi, x) THEN hi
    ELSE x

\* torch.min of two elements: NaN wins
Min2(x, y) == IF IsNaN(x) \/ IsNaN(y) THEN NaN ELSE IF Lt(y, x) THEN y ELSE x

RECURSIVE SqrtSearch(_, _, _)
SqrtSearch(n, lo, hi) ==
    IF lo >= hi THEN lo
    ELSE LET mid == (lo + hi + 1) \div 2
         IN IF mid * mid <= n THEN SqrtSearch(n, mid, hi) ELSE SqrtSearch(n, lo, mid - 1)
\* the largest r with r * r <= n
ISqrt(n) == SqrtSearch(n, 0, n)

RECURSIVE SumSeq(_)
SumSeq(s) == IF s = <<>> THEN Zero ELSE Add(s[1], SumSeq(Tail(s)))

\* mean over the elements of a vector
Mean(s) == Div(SumSeq(s), Fin(Len(s) * Scale))

\* torch.norm: the 2-norm of a vector, rounded once
Norm(s) ==
    IF \E i \in 1..Len(s) : IsNaN(s[i]) THEN NaN
    ELSE IF \E i \in 1..Len(s) : IsInf(s[i]) THEN PosInf
    ELSE LET RECURSIVE SumSq(_)
             SumSq(k) == IF k = 0 THEN 0 ELSE s[k][2] * s[k][2] + SumSq(k - 1)
         IN Fin(ISqrt(SumSq(Len(s))))

\* torch.exp: exact at 0 and at the non-finite values; in between the
\* second-order expansion, 1 + x + x^2/2 for x > 0 and its reciprocal for x < 0
Exp(x) ==
    IF IsNaN(x) THEN NaN
    ELSE IF IsInf(x) THEN (IF x[2] > 0 THEN PosInf ELSE Zero)
    ELSE LET a == IF x[2] < 0 THEN -x[2] ELSE x[2]
             t == Scale + a + (a * a) \div (2 * Scale)
         IN IF x[2] >= 0 THEN Fin(t) ELSE Fin((Scale * Scale) \div t)

VecSub(a, b) == [i \in 1..Len(a) |-> Sub(a[i], b[i])]
VecAdd(a, b) == [i \in 1..Len(a) |-> Add(a[i], b[i])]
VecScale(a, k) == [i \in 1..Len(a) |-> Mul(a[i], k)]
Dot(a, b) == SumSeq([i \in 1..Len(a) |-> Mul(a[i], b[i])])
Cross(a, b) ==
    << Sub(Mul(a[2], b[3]), Mul(a[3], b[2])),
       Sub(Mul(a[3], b[1]), Mul(a[1], b[3])),
       Sub(Mul(a[1], b[2]), Mul(a[2], b[1])) >>

\* ------------------------------------------------------------------------
\* Configuration read by __init__ and the constants of the code
\* ------------------------------------------------------------------------
NumDrones == 2              \* cfg.task.num_drones, self.drone.n
MaxEpisodeLength == 2       \* self.max_episode_length
Envs == 0 .. (NumEnvs - 1)
Drones == 1 .. NumDrones

reward_effort_weight == Fin(Scale \div 10)              \* 0.1
reward_spin_weight == Fin((4 * Scale) \div 5)           \* 0.8
reward_swing_weight == Fin((4 * Scale) \div 5)          \* 0.8
reward_action_smoothness_weight == Fin(Scale \div 10)   \* 0.1
reward_distance_scale == Fin((6 * Scale) \div 5)        \* 1.2
safe_distance == Fin(Scale \div 2)                      \* 0.5
alpha == Fin((4 * Scale) \div 5)                        \* 0.8
AltitudeThreshold == Fin(Scale \div 5)                  \* 0.2
Half == Fin(Scale \div 2)                               \* 0.5
Two == Fin(2 * Scale)

Zero3 == <<Zero, Zero, Zero>>
Vec3(x, y, z) == <<Fin(x), Fin(y), Fin(z)>>

\* ------------------------------------------------------------------------
\* Orientation helpers (omni_drones.utils.torch)
\* ------------------------------------------------------------------------
\* cos and sin of half of the angle k * pi
CosHalf(k) == Fin(Scale * (CASE k % 4 = 0 -> 1 [] k % 4 = 2 -> -1 [] OTHER -> 0))
SinHalf(k) == Fin(Scale * (CASE k % 4 = 1 -> 1 [] k % 4 = 3 -> -1 [] OTHER -> 0))

\* euler_to_quaternion(rpy), the angles given in multiples of pi; <<w, x, y, z>>
euler_to_quaternion(rpy) ==
    LET cr == CosHalf(rpy[1])  sr == SinHalf(rpy[1])
        cp == CosHalf(rpy[2])  sp == SinHalf(rpy[2])
        cy == CosHalf(rpy[3])  sy == SinHalf(rpy[3])
    IN << Add(Mul(Mul(cy, cr), cp), Mul(Mul(sy, sr), sp)),
          Sub(Mul(Mul(cy, sr), cp), Mul(Mul(sy, cr), sp)),
          Add(Mul(Mul(cy, cr), sp), Mul(Mul(sy, sr), cp)),
          Sub(Mul(Mul(sy, cr), cp), Mul(Mul(cy, sr), sp)) >>

\* quat_axis(q, axis): the axis-th basis vector (0, 1 or 2) rotated by q
quat_axis(q, axis) ==
    LET v == [i \in 1..3 |-> IF i = axis + 1 THEN One ELSE Zero]
        q_w == q[1]
        q_vec == <<q[2], q[3], q[4]>>
        a == VecScale(v, Sub(Mul(Two, Square(q_w)), One))
        b == VecScale(VecScale(Cross(q_vec, v), q_w), Two)
        c == VecScale(VecScale(q_vec, Dot(q_vec, v)), Two)
    IN VecAdd(VecAdd(a, b), c)

\* ------------------------------------------------------------------------
\* State
\* ------------------------------------------------------------------------
VARIABLES
    progress_buf,           \* [env] steps since the instance's reset
    stats,                  \* [env] running statistics (self.stats)
    payload_target_pos,     \* shared target position
    payload_target_heading, \* [env] stored target heading
    last_distance,          \* [env] distance cached by the reset
    sim,                    \* [env] what the simulator returned at the last step
    cache,                  \* [env] fields set by _compute_state_and_obs
    out,                    \* [env] the entries of the last emitted tensordict
    last_call,              \* the operation that ran last and its env_ids
    was_reset,              \* history: the instances reset at least once
    clean,                  \* history: the instances with no terminated step
                            \* since their last reset
    fn_in,                  \* function check: <<separation, safe_distance>>
    fn_out                  \* function check: reward_separation of fn_in

vars == << progress_buf, stats, payload_target_pos, payload_target_heading,
           last_distance, sim, cache, out, last_call, was_reset, clean,
           fn_in, fn_out >>

taskVars == << progress_buf, stats, payload_target_pos, payload_target_heading,
               last_distance, sim, cache, out, last_call, was_reset, clean >>

\* stats_spec.zero(): every field of every instance is 0
ZeroStats ==
    [ return |-> [d \in Drones |-> Zero],
      episode_len |-> Zero,
      pos_error |-> Zero,
      heading_alignment |-> Zero,
      uprightness |-> Zero,
      action_smoothness |-> [d \in Drones |-> Zero] ]

StatFields == {"return", "episode_len", "pos_error", "heading_alignment",
               "uprightness", "action_smoothness"}

Unset == <<>>

Init ==
    /\ progress_buf = [e \in Envs |-> 0]
    /\ stats = [e \in Envs |-> ZeroStats]
    /\ payload_target_pos = Vec3(0, 0, 2 * Scale)
    /\ payload_target_heading = [e \in Envs |-> Zero3]
    /\ last_distance = [e \in Envs |-> Zero]
    /\ sim = [e \in Envs |-> Unset]
    /\ cache = [e \in Envs |-> Unset]
    /\ out = [e \in Envs |-> Unset]
    /\ last_call = [op |-> "init", env_ids |-> {}]
    /\ was_reset = {}
    /\ clean = Envs
    /\ fn_in = <<Zero, safe_distance>>
    /\ fn_out = Unset

\* ------------------------------------------------------------------------
\* What the simulator can return at a step, per instance
\* ------------------------------------------------------------------------
\* one vehicle's state vector: position x, y, z and one further component
\* standing for the rest of the vector (orientation, velocities, throttle)
DroneState(x, y, z, rest) == <<Fin(x), Fin(y), Fin(z), rest>>

\* two vehicles 0.5 apart at altitude 1.0
Apart == << DroneState(0, 0, Scale, Zero), DroneState(Scale \div 2, 0, Scale, Zero) >>
\* two vehicles 0.25 apart, both at altitude 0.2 exactly
Close == << DroneState(0, 0, Scale \div 5, Zero),
            DroneState(Scale \div 4, 0, Scale \div 5, Zero) >>
\* two vehicles at the same place
Touching == << DroneState(0, 0, Scale, Zero), DroneState(0, 0, Scale, Zero) >>
\* one vehicle just below altitude 0.2, the other at 1.0
Low == << DroneState(0, 0, (Scale \div 5) - 1, Zero), DroneState(Scale, 0, Scale, Zero) >>
\* two vehicles at the same place, one with an infinite velocity component
InfVel == << DroneState(0, 0, Scale, PosInf), DroneState(0, 0, Scale, Zero) >>
\* one vehicle whose x position is NaN
NaNPos == << <<NaN, Zero, One, Zero>>, DroneState(Scale \div 2, 0, Scale, Zero) >>

\* the payload hanging still at the target, upright
AtTarget ==
    [ payload_pos |-> Vec3(0, 0, 2 * Scale),
      payload_rot |-> euler_to_quaternion(<<0, 0, 0>>),
      payload_vels |-> <<Zero, Zero, Zero, Zero, Zero, Zero>>,
      joint_positions |-> <<Zero, Zero>>,
      effort |-> [d \in Drones |-> Zero],
      throttle_difference |-> [d \in Drones |-> Zero] ]
\* the payload away from the target, turned by pi around z, moving
Away ==
    [ payload_pos |-> Vec3(Scale, 0, Scale),
      payload_rot |-> euler_to_quaternion(<<0, 0, 1>>),
      payload_vels |-> <<Half, Zero, Zero, Zero, Zero, Neg(Half)>>,
      joint_positions |-> <<Half, Neg(One)>>,
      effort |-> [d \in Drones |-> Fin(d * (Scale \div 2))],
      throttle_difference |-> [d \in Drones |-> Fin(d * (Scale \div 4))] ]
\* the payload's velocity reading is NaN
Broken == [Away EXCEPT !.payload_vels = <<NaN, Zero, Zero, Zero, Zero, Zero>>]

Reading(ds, pl) ==
    [ drone_states |-> ds,
      payload_pos |-> pl.payload_pos,
      payload_rot |-> pl.payload_rot,
      payload_vels |-> pl.payload_vels,
      joint_positions |-> pl.joint_positions,
      effort |-> pl.effort,
      throttle_difference |-> pl.throttle_difference ]

Scenes ==
    << Reading(Apart, AtTarget), Reading(Close, Away), Reading(Low, Away),
       Reading(Touching, Away), Reading(InfVel, Broken), Reading(NaNPos, Away) >>

\* the readings of one step for all instances: instance e gets the scene
\* that follows the scene of instance e - 1
Batches ==
    { [e \in Envs |-> Scenes[((k + e) % Len(Scenes)) + 1]] : k \in 1..Len(Scenes) }

\* self.group.joint_limits[..., :16, 0].abs()
joint_limits == <<One, One>>

\* samples of init_pos_dist, a box from (-3, -3, 1) to (3, 3, 2.5)
InitPositions == { Vec3(-3 * Scale, -3 * Scale, Scale) }
\* samples of init_rpy_dist, in multiples of pi: roll = pitch = 0, yaw in [0, 2]
InitRpys == { <<0, 0, 0>>, <<0, 0, 2>> }
\* the sample of payload_target_rpy_dist, whose two ends are both 0
PayloadTargetRpy == <<0, 0, 0>>

\* ------------------------------------------------------------------------
\* _compute_state_and_obs, per instance
\* ------------------------------------------------------------------------
Pos(state) == <<state[1], state[2], state[3]>>

\* vmap(cpos), vmap(off_diag), torch.norm: [i][j] the distance from i to j, j # i
DronePdist(ds) ==
    [i \in Drones |-> [j \in Drones \ {i} |-> Norm(VecSub(Pos(ds[i]), Pos(ds[j])))]]

ComputeStateAndObs(r, target_pos, target_heading) ==
    LET payload_heading == quat_axis(r.payload_rot, 0)
        payload_up == quat_axis(r.payload_rot, 2)
        rpose == VecSub(target_pos, r.payload_pos) \o VecSub(target_heading, payload_heading)
    IN [ drone_states |-> r.drone_states,
         drone_pdist |-> DronePdist(r.drone_states),
         payload_heading |-> payload_heading,
         payload_up |-> payload_up,
         target_payload_rpose |-> rpose,
         pos_error |-> Norm(SubSeq(rpose, 1, 3)),
         heading_alignment |-> Dot(payload_heading, target_heading) ]

\* "stats": self.stats.clone(), taken before the statistics are updated
StatsAliased(before, after) == after
StatsSnapshot(before, after) == before

\* ------------------------------------------------------------------------
\* _compute_reward_and_done, per instance
\* ------------------------------------------------------------------------
RECURSIVE MinSeq(_)
MinSeq(s) == IF Len(s) = 1 THEN s[1] ELSE Min2(s[1], MinSeq(Tail(s)))

\* self.drone_pdist.min(dim=-2).values.min(dim=-2).values
Separation(pdist) ==
    LET row(i) == LET others == Drones \ {i}
                      RECURSIVE MinOver(_)
                      MinOver(S) == LET j == CHOOSE k \in S : TRUE
                                    IN IF S = {j} THEN pdist[i][j]
                                       ELSE Min2(pdist[i][j], MinOver(S \ {j}))
                  IN MinOver(others)
    IN MinSeq([i \in Drones |-> row(i)])

RewardSeparationNoClamp(separation, safe) == Square(Div(separation, safe))
RewardSeparation(separation, safe) == Clamp(Square(Div(separation, safe)), Zero, One)

RewardPose(c) == Exp(Mul(Neg(Norm(c.target_payload_rpose)), reward_distance_scale))
RewardUp(c) == Square(Div(Add(c.payload_up[3], One), Two))
RewardSpin(r) ==
    Mul(reward_spin_weight,
        Exp(Neg(Square(SumSeq([i \in 1..3 |-> Abs(r.payload_vels[i + 3])])))))
RewardSwing(r) ==
    Mul(reward_swing_weight,
        Exp(Neg(Square(SumSeq([i \in 1..3 |-> Abs(r.payload_vels[i])])))))
RewardEffort(r) ==
    Mul(reward_effort_weight, Mean([d \in Drones |-> Exp(Neg(r.effort[d]))]))
RewardJointLimit(r) ==
    Mul(Half, Mean([j \in 1..Len(r.joint_positions) |->
                      Sub(One, Square(Div(r.joint_positions[j], joint_limits[j])))]))
RewardActionSmoothness(r) ==
    [d \in Drones |-> Mul(reward_action_smoothness_weight, Neg(r.throttle_difference[d]))]

\* the sum that reward_separation multiplies
RewardTerms(c, r) ==
    Add(Add(Add(Add(RewardPose(c),
                    Mul(RewardPose(c), Add(Add(RewardUp(c), RewardSpin(r)), RewardSwing(r)))),
                RewardJointLimit(r)),
            Mean(RewardActionSmoothness(r))),
        RewardEffort(r))

\* reward[:] = (reward_separation * (...)).unsqueeze(-1): the same for every agent
RewardUngatedEffort(c, r) ==
    LET rs == RewardSeparation(Separation(c.drone_pdist), safe_distance)
    IN [d \in Drones |-> Add(Mul(rs, Sub(RewardTerms(c, r), RewardEffort(r))), RewardEffort(r))]
Reward(c, r) ==
    LET rs == RewardSeparation(Separation(c.drone_pdist), safe_distance)
    IN [d \in Drones |-> Mul(rs, RewardTerms(c, r))]

MisbehaveAll(ds) == \A d \in Drones : Lt(ds[d][3], AltitudeThreshold)
Misbehave(ds) == \E d \in Drones : Lt(ds[d][3], AltitudeThreshold)
HasNaN(ds) == \E d \in Drones : \E i \in 1..Len(ds[d]) : IsNaN(ds[d][i])

TerminatedNoNaN(ds) == Misbehave(ds)
Terminated(ds) == Misbehave(ds) \/ HasNaN(ds)

TruncatedStrict(progress) == progress > MaxEpisodeLength
Truncated(progress) == progress >= MaxEpisodeLength

DoneTerminatedOnly(terminated, truncated) == terminated
Done(terminated, truncated) == terminated \/ truncated

\* Tensor.lerp_(end, weight): start + weight * (end - start)
Lerp(start, end, weight) == Add(start, Mul(weight, Sub(end, start)))

UpdateStats(st, c, r, progress, reward) ==
    LET w == Sub(One, alpha)
        mean_reward == Mean(reward)
    IN [ return |-> [d \in Drones |-> Add(st.return[d], mean_reward)],
         episode_len |-> Fin(progress * Scale),
         pos_error |-> Lerp(st.pos_error, c.pos_error, w),
         heading_alignment |-> Lerp(st.heading_alignment, c.heading_alignment, w),
         uprightness |-> Lerp(st.uprightness, c.payload_up[3], w),
         action_smoothness |->
            [d \in Drones |-> Lerp(st.action_smoothness[d], Neg(r.throttle_difference[d]), w)] ]

\* ------------------------------------------------------------------------
\* One step of the environment: the step counter advances, the state is
\* aggregated, then the reward and the flags are computed
\* ------------------------------------------------------------------------
\* the environment's step counter: one more step for every instance
AdvanceProgress(progress) == [e \in Envs |-> progress[e] + 1]
\* the environment's step counter: the instances that are reset start again at 0
ResetProgress(progress, env_ids) ==
    [e \in Envs |-> IF e \in env_ids THEN 0 ELSE progress[e]]

StepWith(rd) ==
    \E progress \in {AdvanceProgress(progress_buf)} :
    \E c \in {[e \in Envs |->
                ComputeStateAndObs(rd[e], payload_target_pos, payload_target_heading[e])]} :
    \E reward \in {[e \in Envs |-> Reward(c[e], rd[e])]} :
    \E after \in {[e \in Envs |->
                    UpdateStats(stats[e], c[e], rd[e], progress[e], reward[e])]} :
       /\ progress_buf' = progress
       /\ sim' = rd
       /\ cache' = c
       /\ stats' = after
       /\ out' = [e \in Envs |->
                    [ stats |-> StatsSnapshot(stats[e], after[e]),
                      reward |-> reward[e],
                      done |-> Done(Terminated(c[e].drone_states), Truncated(progress[e])),
                      terminated |-> Terminated(c[e].drone_states),
                      truncated |-> Truncated(progress[e]) ]]
       /\ last_call' = [op |-> "step", env_ids |-> Envs]
       /\ clean' = {e \in clean : ~Terminated(c[e].drone_states)}
       /\ UNCHANGED << payload_target_pos, payload_target_heading, last_distance,
                       was_reset, fn_in, fn_out >>

Step ==
    /\ \A e \in Envs : progress_buf[e] < MaxProgress
    /\ \E rd \in Batches : StepWith(rd)

\* ------------------------------------------------------------------------
\* _reset_idx(env_ids)
\* ------------------------------------------------------------------------
ResetStatsReturnOnly(st, env_ids) ==
    [e \in Envs |-> IF e \in env_ids
                    THEN [st[e] EXCEPT !.return = [d \in Drones |-> Zero]] ELSE st[e]]
ResetStatsEverywhere(st, env_ids) ==
    [e \in Envs |-> IF env_ids # {} THEN ZeroStats ELSE st[e]]
\* self.stats[env_ids] = 0.
ResetStats(st, env_ids) == [e \in Envs |-> IF e \in env_ids THEN ZeroStats ELSE st[e]]

KeepTargetHeading(stored, env_ids, heading) == stored
\* self.payload_target_heading[env_ids] = payload_target_heading
StoreTargetHeading(stored, env_ids, heading) ==
    [e \in Envs |-> IF e \in env_ids THEN heading[e] ELSE stored[e]]

ResetIdx(env_ids, pos, rpy) ==
    LET heading == [e \in env_ids |-> quat_axis(euler_to_quaternion(rpy[e]), 0)]
        payload_target_rot == [e \in env_ids |-> euler_to_quaternion(PayloadTargetRpy)]
        target_heading == [e \in env_ids |-> quat_axis(payload_target_rot[e], 0)]
        distance == [e \in env_ids |->
                       Norm(VecSub(payload_target_pos, pos[e])
                            \o VecSub(target_heading[e], heading[e]))]
    IN /\ payload_target_heading' =
              StoreTargetHeading(payload_target_heading, env_ids, target_heading)
       /\ stats' = ResetStats(stats, env_ids)
       /\ last_distance' =
              [e \in Envs |-> IF e \in env_ids THEN distance[e] ELSE last_distance[e]]
       /\ progress_buf' = ResetProgress(progress_buf, env_ids)
       /\ last_call' = [op |-> "reset", env_ids |-> env_ids]
       /\ was_reset' = was_reset \cup env_ids
       /\ clean' = clean \cup env_ids
       /\ UNCHANGED << payload_target_pos, sim, cache, out, fn_in, fn_out >>

Reset ==
    \E env_ids \in SUBSET Envs :
        \E pos \in [env_ids -> InitPositions] :
            \E rpy \in [env_ids -> InitRpys] : ResetIdx(env_ids, pos, rpy)

Next == Step \/ Reset

Spec == Init /\ [][Next]_vars

\* ------------------------------------------------------------------------
\* reward_separation as a function: the inputs are drawn at the start, the
\* one action applies the function
\* ------------------------------------------------------------------------
SeparationInputs == {Fin(v) : v \in 0..MaxSep} \cup {NaN, PosInf}
SafeDistanceInputs == {Fin(Scale \div 4), Fin(Scale \div 2), Fin(Scale)}

InitFn ==
    /\ progress_buf = [e \in Envs |-> 0]
    /\ stats = [e \in Envs |-> ZeroStats]
    /\ payload_target_pos = Vec3(0, 0, 2 * Scale)
    /\ payload_target_heading = [e \in Envs |-> Zero3]
    /\ last_distance = [e \in Envs |-> Zero]
    /\ sim = [e \in Envs |-> Unset]
    /\ cache = [e \in Envs |-> Unset]
    /\ out = [e \in Envs |-> Unset]
    /\ last_call = [op |-> "init", env_ids |-> {}]
    /\ was_reset = {}
    /\ clean = Envs
    /\ fn_in \in SeparationInputs \X SafeDistanceInputs
    /\ fn_out = Unset

ApplyFn ==
    /\ fn_out = Unset
    /\ fn_out' = RewardSeparation(fn_in[1], fn_in[2])
    /\ UNCHANGED << taskVars, fn_in >>

NextFn == ApplyFn

SpecFn == InitFn /\ [][NextFn]_vars

\* ------------------------------------------------------------------------
\* Properties
\* ------------------------------------------------------------------------
Emitted(e) == out[e] # Unset
Components(e) == {cache[e].drone_states[d][i] : d \in Drones, i \in 1..4}
AllFinite(e) == \A x \in Components(e) : IsFin(x)
SomeNaN(e) == \E x \in Components(e) : x = NaN
SomeNonFinite(e) == \E x \in Components(e) : x \in {NaN, PosInf, NegInf}
\* a finite altitude z / Scale is below 0.2
BelowAltitude(x) == IsFin(x) /\ 5 * x[2] < Scale
SomeLow(e) == \E d \in Drones : BelowAltitude(cache[e].drone_states[d][3])
AllHigh(e) ==
    \A d \in Drones : LET z == cache[e].drone_states[d][3]
                      IN z = PosInf \/ (IsFin(z) /\ 5 * z[2] >= Scale)
reward_separation(e) == RewardSeparation(Separation(cache[e].drone_pdist), safe_distance)
ExactlyZero(st) ==
    /\ \A d \in Drones : st.return[d] = Zero /\ st.action_smoothness[d] = Zero
    /\ st.episode_len = Zero /\ st.pos_error = Zero
    /\ st.heading_alignment = Zero /\ st.uprightness = Zero
\* the vector is finite and its squared length is 1
UnitNorm(h) ==
    /\ \A i \in 1..3 : IsFin(h[i])
    /\ h[1][2] * h[1][2] + h[2][2] * h[2][2] + h[3][2] * h[3][2] = Scale * Scale

\* C1: at every step, for an instance whose vehicle states are all finite,
\* terminated is true exactly when some vehicle's altitude is below 0.2.
C1_TerminatedIffLowAltitude ==
    \A e \in Envs : (Emitted(e) /\ AllFinite(e)) => (out[e].terminated <=> SomeLow(e))
\* a finite instance terminated by one low vehicle while another one is high,
\* and a finite instance at exactly 0.2 that is not terminated
C1_Witness ==
    /\ \E e \in Envs : /\ Emitted(e) /\ AllFinite(e) /\ out[e].terminated
                       /\ \E d \in Drones : ~BelowAltitude(cache[e].drone_states[d][3])
    /\ \E e \in Envs : /\ Emitted(e) /\ AllFinite(e) /\ ~out[e].terminated
                       /\ \E d \in Drones : cache[e].drone_states[d][3] = AltitudeThreshold

\* C2 as stated: a non-finite component (NaN or an infinity) of a vehicle's
\* state makes terminated true, whatever the altitudes.
C2_NonFiniteTerminates ==
    \A e \in Envs : (Emitted(e) /\ SomeNonFinite(e)) => out[e].terminated
\* C2 amended: a NaN component of a vehicle's state makes terminated true,
\* whatever the altitudes.
C2_NaNTerminates ==
    \A e \in Envs : (Emitted(e) /\ SomeNaN(e)) => out[e].terminated
\* an instance terminated by a NaN while no vehicle is low
C2_Witness ==
    \E e \in Envs : Emitted(e) /\ SomeNaN(e) /\ ~SomeLow(e) /\ out[e].terminated

\* C3: from a reset on, while no step triggers misbehave or hasnan,
\* truncated is false before the max_episode_length-th step, and that step
\* emits truncated = true and terminated = false.
C3_TruncatedAtMaxEpisodeLength ==
    \A e \in Envs :
        (last_call.op = "step" /\ e \in clean) =>
            /\ progress_buf[e] < MaxEpisodeLength => ~out[e].truncated
            /\ progress_buf[e] = MaxEpisodeLength =>
                   (out[e].truncated /\ ~out[e].terminated)
\* the max_episode_length-th step after a reset, none of them terminated
C3_Witness ==
    \E e \in Envs : /\ last_call.op = "step" /\ e \in clean /\ e \in was_reset
                    /\ progress_buf[e] = MaxEpisodeLength
                    /\ out[e].truncated /\ ~out[e].terminated

\* C4: after _reset_idx(env_ids) every statistics field of every instance
\* in env_ids is exactly zero.
C4_StatsZeroAfterReset ==
    last_call.op = "reset" => \A e \in last_call.env_ids : ExactlyZero(stats[e])
\* a reset of an instance that has been stepped, its last reward not zero
C4_Witness ==
    /\ last_call.op = "reset"
    /\ \E e \in last_call.env_ids :
          /\ Emitted(e) /\ \E d \in Drones : out[e].reward[d] # Zero
          /\ ExactlyZero(stats[e])

\* C5 as stated: where reward_separation is 0 the reward of every agent is
\* exactly 0, whatever the other reward terms are.
C5_ZeroSeparationZeroReward ==
    \A e \in Envs :
        (Emitted(e) /\ reward_separation(e) = Zero) =>
            \A d \in Drones : out[e].reward[d] = Zero
\* C5 amended: where reward_separation is 0 and the sum of the other reward
\* terms is finite, the reward of every agent is exactly 0; where that sum
\* is NaN or infinite the reward is NaN.
C5_ZeroSeparationFiniteTerms ==
    \A e \in Envs :
        (Emitted(e) /\ reward_separation(e) = Zero) =>
            \A d \in Drones :
                out[e].reward[d] = IF IsFin(RewardTerms(cache[e], sim[e])) THEN Zero ELSE NaN
\* vehicles at the same place, the other terms finite and not zero
C5_Witness ==
    \E e \in Envs :
        /\ Emitted(e) /\ reward_separation(e) = Zero
        /\ IsFin(RewardTerms(cache[e], sim[e])) /\ RewardTerms(cache[e], sim[e]) # Zero
        /\ \A d \in Drones : out[e].reward[d] = Zero

\* what C6 says of one separation and one safe_distance
SeparationProfile(separation, safe, rs) ==
    /\ Le(Zero, rs) /\ Le(rs, One)
    /\ Le(safe, separation) => rs = One
    /\ Lt(separation, safe) => Lt(rs, One)
    /\ separation = Zero => rs = Zero
    /\ (safe = Half /\ separation = Half) => rs = One
    /\ (safe = Half /\ separation = Fin(Scale \div 4)) => rs = Fin(Scale \div 4)
\* C6 as stated: for every minimum separation, reward_separation lies in
\* [0, 1], is 1 from safe_distance on, less than 1 below it, 0 at 0.
C6_SeparationProfile ==
    fn_out # Unset => SeparationProfile(fn_in[1], fn_in[2], fn_out)
\* C6 amended: for every minimum separation that is not NaN, reward_separation
\* lies in [0, 1], is 1 from safe_distance on, less than 1 below it, 0 at 0
\* (0.5 and 0.25 give 1.0 and 0.25 at safe_distance 0.5).
C6_SeparationProfileNoNaN ==
    (fn_out # Unset /\ fn_in[1] # NaN) => SeparationProfile(fn_in[1], fn_in[2], fn_out)
\* the function applied to a separation of 0.25 at safe_distance 0.5
C6_Witness ==
    fn_out = Fin(Scale \div 4) /\ fn_in = <<Fin(Scale \div 4), Half>>

\* C7 as stated: in every reachable state, from construction on, the stored
\* target heading of every instance has unit norm.
C7_HeadingAlwaysUnit ==
    \A e \in Envs : UnitNorm(payload_target_heading[e])
\* C7 amended: the stored target heading of every instance that has been
\* reset at least once has unit norm, and a step of such an instance
\* computes heading_alignment against it.
C7_HeadingUnitOnceReset ==
    \A e \in was_reset :
        /\ UnitNorm(payload_target_heading[e])
        /\ (last_call.op = "step" /\ AllFinite(e)) =>
               cache[e].heading_alignment =
                   Dot(cache[e].payload_heading, payload_target_heading[e])
\* every instance has been reset and then stepped
C7_Witness ==
    /\ was_reset = Envs /\ last_call.op = "step"
    /\ \A e \in Envs : payload_target_heading[e] = <<One, Zero, Zero>>

\* C8: in every step output done = terminated OR truncated, the two flags
\* being emitted next to done.
C8_DoneIsTerminatedOrTruncated ==
    \A e \in Envs :
        Emitted(e) =>
            /\ {"done", "terminated", "truncated"} \subseteq DOMAIN out[e]
            /\ out[e].done <=> (out[e].terminated \/ out[e].truncated)
\* an output that is done by truncation alone
C8_Witness ==
    \E e \in Envs : Emitted(e) /\ out[e].done /\ out[e].truncated /\ ~out[e].terminated

\* C9: _reset_idx(env_ids) leaves the statistics, the stored target heading
\* and last_distance of every instance outside env_ids as they were, and no
\* reset or step changes the shared target position.
C9_ResetFrame ==
    [][ /\ payload_target_pos' = payload_target_pos
        /\ last_call'.op = "reset" =>
               \A e \in Envs \ last_call'.env_ids :
                   /\ stats'[e] = stats[e]
                   /\ payload_target_heading'[e] = payload_target_heading[e]
                   /\ last_distance'[e] = last_distance[e] ]_vars
\* a reset that leaves out an instance that was never reset and whose
\* statistics are not zero
C9_Witness ==
    /\ last_call.op = "reset" /\ last_call.env_ids # {}
    /\ \E e \in Envs \ last_call.env_ids :
          /\ e \notin was_reset /\ ~ExactlyZero(stats[e])
          /\ payload_target_heading[e] = Zero3 /\ last_distance[e] = Zero

\* C10: the statistics emitted at a step are the statistics as they stood
\* before the step; the step's own episode length is not in them.
C10_SnapshotBeforeUpdate ==
    [][ last_call'.op = "step" =>
            \A e \in Envs :
                /\ out'[e].stats = stats[e]
                /\ out'[e].stats.episode_len = Fin(progress_buf[e] * Scale)
                /\ stats'[e].episode_len = Fin((progress_buf[e] + 1) * Scale) ]_vars
\* a step whose snapshot is not zero and differs from the updated statistics
C10_Witness ==
    /\ last_call.op = "step"
    /\ \E e \in Envs : /\ ~ExactlyZero(out[e].stats) /\ out[e].stats # stats[e]
                       /\ out[e].stats.episode_len = Fin((progress_buf[e] - 1) * Scale)

====
